---------------------------- MODULE Spec2Model ----------------------------
(***************************************************************************)
(* io-fixed-throughput: block I/O against one file at a fixed throughput.  *)
(* The model follows src/src/main.cpp: Worker::run, Worker::rw_one_block   *)
(* and main.  Time is the steady clock in nanoseconds.                     *)
(***************************************************************************)
EXTENDS Integers, Sequences, FiniteSets, TLC

Min(a, b) == IF a <= b THEN a ELSE b
Max(a, b) == IF a >= b THEN a ELSE b

(***************************************************************************)
(* Natural numbers wider than 32 bits: a sequence of limbs of LimbBits     *)
(* bits, least significant first, the last limb not 0 (zero is the empty   *)
(* sequence).  They carry the 64-bit and double-precision arithmetic of    *)
(* the pacing interval.                                                    *)
(***************************************************************************)
LimbBits == 15

LimbBase == 2^LimbBits

\* the index of the last element of s that is not 0, or 0
Top(s) ==
    LET nz == {i \in 1..Len(s) : s[i] # 0}
    IN  IF nz = {} THEN 0 ELSE CHOOSE i \in nz : \A j \in nz : j <= i

Norm(s) == IF s = <<>> THEN <<>> ELSE SubSeq(s, 1, Top(s))

Limb(a, i) == IF i >= 1 /\ i <= Len(a) THEN a[i] ELSE 0

\* a number below 2^31
NatOf(k) ==
    Norm(<<k % LimbBase, (k \div LimbBase) % LimbBase, k \div (LimbBase * LimbBase)>>)

\* back, for a number below 2^31
IntOf(a) == Limb(a, 1) + LimbBase * (Limb(a, 2) + LimbBase * Limb(a, 3))

\* the carry into limb i of a + b: decided by the nearest limb below that
\* does not just pass a carry on
CarryInto(a, b, i) ==
    LET decided == {j \in 1..(i - 1) : Limb(a, j) + Limb(b, j) # LimbBase - 1}
    IN  IF decided = {} THEN 0
        ELSE LET m == CHOOSE j \in decided : \A k \in decided : k <= j
             IN  IF Limb(a, m) + Limb(b, m) >= LimbBase THEN 1 ELSE 0

AddN(a, b) ==
    IF a = <<>> THEN b
    ELSE IF b = <<>> THEN a
    ELSE Norm([i \in 1..(Max(Len(a), Len(b)) + 1) |->
                 (Limb(a, i) + Limb(b, i) + CarryInto(a, b, i)) % LimbBase])

\* a >= b, decided by the highest limb that differs
GeqN(a, b) ==
    IF Len(a) # Len(b) THEN Len(a) > Len(b)
    ELSE LET diff == {i \in 1..Len(a) : a[i] # b[i]}
         IN  \/ diff = {}
             \/ LET m == CHOOSE i \in diff : \A j \in diff : j <= i
                IN  a[m] > b[m]

\* the borrow into limb i of a - b
BorrowInto(a, b, i) ==
    LET decided == {j \in 1..(i - 1) : Limb(a, j) # Limb(b, j)}
    IN  IF decided = {} THEN 0
        ELSE LET m == CHOOSE j \in decided : \A k \in decided : k <= j
             IN  IF Limb(a, m) < Limb(b, m) THEN 1 ELSE 0

\* a - b for a >= b
SubN(a, b) ==
    IF b = <<>> THEN a
    ELSE Norm([i \in 1..Len(a) |->
                 (Limb(a, i) - Limb(b, i) - BorrowInto(a, b, i) + LimbBase) % LimbBase])

\* a * LimbBase^k
ShiftLimbs(a, k) == IF a = <<>> THEN <<>> ELSE [i \in 1..k |-> 0] \o a

\* a * d for one limb d: the low halves of the limb products, plus the high
\* halves one limb up
MulLimb(a, d) ==
    IF a = <<>> \/ d = 0 THEN <<>>
    ELSE AddN(Norm([i \in 1..Len(a) |-> (a[i] * d) % LimbBase]),
              ShiftLimbs(Norm([i \in 1..Len(a) |-> (a[i] * d) \div LimbBase]), 1))

\* a times limb j of b, in its place
Term(a, b, j) == ShiftLimbs(MulLimb(a, Limb(b, j)), j - 1)

\* a * b for b of at most 4 limbs (60 bits)
MulN(a, b) ==
    IF a = <<>> \/ b = <<>> THEN <<>>
    ELSE AddN(AddN(Term(a, b, 1), Term(a, b, 2)),
              AddN(Term(a, b, 3), Term(a, b, 4)))

\* a * 2^k
ShlN(a, k) ==
    IF a = <<>> THEN <<>>
    ELSE ShiftLimbs(MulLimb(a, 2^(k % LimbBits)), k \div LimbBits)

\* a \div 2^k
ShrN(a, k) ==
    LET q == k \div LimbBits
        s == k % LimbBits
    IN  IF a = <<>> \/ q >= Len(a) THEN <<>>
        ELSE Norm([i \in 1..(Len(a) - q) |->
                     (a[q + i] \div 2^s) + (Limb(a, q + i + 1) % 2^s) * 2^(LimbBits - s)])

\* the number of bits of a limb v > 0, and of a
Width(v) == CHOOSE k \in 1..LimbBits : 2^(k - 1) <= v /\ v < 2^k

BitLen(a) == IF a = <<>> THEN 0 ELSE LimbBits * (Len(a) - 1) + Width(a[Len(a)])

\* bit i of a, the lowest being bit 1
TestBit(a, i) == (Limb(a, (i - 1) \div LimbBits + 1) \div 2^((i - 1) % LimbBits)) % 2

\* one of the k lowest bits of a is set
AnyLowBit(a, k) ==
    \E i \in 1..Len(a) :
        \/ i <= k \div LimbBits /\ a[i] # 0
        \/ i = k \div LimbBits + 1 /\ a[i] % 2^(k % LimbBits) # 0

\* one limb of a quotient: the largest d with b * d <= r, for r < b * LimbBase
\* and the top limb of b at least LimbBase / 2; the estimate from the top
\* limbs is at most 2 too large
Digit(r, b) ==
    LET n == Len(b)
        est == Min((Limb(r, n + 1) * LimbBase + Limb(r, n)) \div b[n], LimbBase - 1)
    IN  IF GeqN(r, MulLimb(b, est)) THEN est
        ELSE IF GeqN(r, MulLimb(b, est - 1)) THEN est - 1
        ELSE est - 2

\* long division of a by b, from limb i of a down, with the quotient q and
\* the remainder r < b of the limbs above: [q, r]
RECURSIVE DivFrom(_, _, _, _, _)
DivFrom(a, b, i, q, r) ==
    IF i = 0 \/ GeqN(r, b) THEN [q |-> Norm(q), r |-> r]
    ELSE LET r2 == Norm(<<a[i]>> \o r)
             d == Digit(r2, b)
         IN  DivFrom(a, b, i - 1, <<d>> \o q, SubN(r2, MulLimb(b, d)))

\* a divided by b # 0, both scaled so that the top limb of b is full; the
\* top Len(b) - 1 limbs of a are below b: they start as the remainder
DivScaled(a, b) ==
    IF Len(a) < Len(b) THEN [q |-> <<>>, r |-> a]
    ELSE DivFrom(a, b, Len(a) - Len(b) + 1, <<>>,
                 SubSeq(a, Len(a) - Len(b) + 2, Len(a)))

DivModN(a, b) ==
    LET s == LimbBits - Width(b[Len(b)])
        d == DivScaled(ShlN(a, s), ShlN(b, s))
    IN  [q |-> d.q, r |-> ShrN(d.r, s)]

(***************************************************************************)
(* IEEE-754 binary64 values mant * 2^exp with mant <= 2^53, and the three  *)
(* operations of main.cpp:104: size_t -> double, double * double,          *)
(* double / double, each rounded to nearest, ties to even; then the        *)
(* conversion double -> uint64_t of Duration::from_nanos, which truncates. *)
(***************************************************************************)
MantBits == 53

NsPerSec == 1000000000

\* m (with a non-zero remainder below it when sticky) rounded to MantBits bits
Round53(m, sticky) ==
    IF BitLen(m) <= MantBits THEN [mant |-> m, exp |-> 0]
    ELSE LET sh == BitLen(m) - MantBits
             top == ShrN(m, sh)
             rest == sticky \/ AnyLowBit(m, sh - 1)
             up == TestBit(m, sh) = 1 /\ (rest \/ top[1] % 2 = 1)
         IN  [mant |-> IF up THEN AddN(top, NatOf(1)) ELSE top, exp |-> sh]

DoubleOfSize(k) == Round53(NatOf(k), FALSE)

DMul(x, y) ==
    LET p == Round53(MulN(x.mant, y.mant), FALSE)
    IN  [mant |-> p.mant, exp |-> p.exp + x.exp + y.exp]

\* the quotient is taken to at least MantBits + 2 bits before it is rounded
DDiv(x, y) ==
    LET k == MantBits + 2 + BitLen(y.mant) - BitLen(x.mant)
        d == DivModN(ShlN(x.mant, k), y.mant)
        p == Round53(d.q, d.r # <<>>)
    IN  [mant |-> p.mant, exp |-> p.exp + x.exp - y.exp - k]

\* a conversion that rounds up
CeilToNanos(x) ==
    IF x.exp >= 0 THEN ShlN(x.mant, x.exp)
    ELSE IF AnyLowBit(x.mant, -x.exp)
         THEN AddN(ShrN(x.mant, -x.exp), NatOf(1))
         ELSE ShrN(x.mant, -x.exp)

\* static_cast<uint64_t>(double) of Duration::from_nanos (main.cpp:103): toward zero
TruncToNanos(x) ==
    IF x.exp >= 0 THEN ShlN(x.mant, x.exp) ELSE ShrN(x.mant, -x.exp)

\* options_.bs * 1e9 / options_.bandwidth.value(), as the nanoseconds of a Duration
IntervalNanos(bs, bandwidth) ==
    TruncToNanos(DDiv(DMul(DoubleOfSize(bs), DoubleOfSize(NsPerSec)),
                      DoubleOfSize(bandwidth)))

\* bs * 10^9 / bandwidth in exact arithmetic, rounded toward zero
ExactNanos(bs, bandwidth) ==
    DivModN(MulN(NatOf(bs), NatOf(NsPerSec)), NatOf(bandwidth)).q

(***************************************************************************)
(* Bounds of the model.                                                    *)
(***************************************************************************)
MaxJobs == 2        \* numjobs ranges over 1..MaxJobs
MaxSize == 2        \* --size ranges over 0..MaxSize bytes
MaxTime == 2        \* the clock of Spec stops at MaxTime nanoseconds
MaxRunTime == 8     \* the clock of SpecRun stops at MaxRunTime nanoseconds
MaxBs == 2          \* block sizes range up to MaxBs bytes
MaxRunBlocks == 3   \* num_blocks of SpecRun ranges over 1..MaxRunBlocks
PtrBits == 16       \* the bits of a uintptr_t of the model
MaxBase == 20       \* buffers start up to MaxBase bytes into, or before the end of, the address space
MaxAlignLog == 4    \* st_blksize ranges over 2^0..2^MaxAlignLog
MaxJobsBlocks == 2  \* num_blocks of SpecJobs

IOType == {"RandRead", "Read", "Write"}

Nullopt == [has_value |-> FALSE, value |-> 0]
Some(v) == [has_value |-> TRUE, value |-> v]

(***************************************************************************)
(* uintptr_t arithmetic of Worker::Worker (main.cpp:93-96): unsigned,      *)
(* modulo 2^PtrBits, with the bitwise operators taken bit by bit.          *)
(***************************************************************************)
PtrMod == 2^PtrBits

BitOf(x, k) == (x \div 2^k) % 2

\* x & y, from bit k up
RECURSIVE BitAndFrom(_, _, _)
BitAndFrom(x, y, k) ==
    IF k = PtrBits THEN 0
    ELSE BitOf(x, k) * BitOf(y, k) * 2^k + BitAndFrom(x, y, k + 1)

BitAnd(x, y) == BitAndFrom(x, y, 0)

\* ~x
BitNot(x) == PtrMod - 1 - x

\* an address rounded down
AlignedDown(data, blksize) == BitAnd(data, BitNot((blksize - 1) % PtrMod))

\* aligned_buf_ (main.cpp:93-96):
\* ((uintptr_t)buf_.data() + blksize - 1) & ~(uintptr_t)(blksize - 1)
AlignedBuf(data, blksize) ==
    BitAnd((data + blksize - 1) % PtrMod, BitNot((blksize - 1) % PtrMod))

NoBuf == [pc |-> "off", data |-> 0, blksize |-> 0, bs |-> 0, aligned_buf_ |-> 0]

VARIABLES
    args,       \* the parsed command line: bandwidth, bs, io_type, size, numjobs, group_reporting
    num_blocks, \* main's num_blocks
    mpc,        \* where main is
    fd,         \* main's fd (0 before the first open, -1 after a failed open)
    i,          \* main's loop index over the jobs
    run_start,  \* main's run_start
    run_time,   \* main's run_time
    output,     \* the throughput/latency lines printed so far
    proc,       \* "running", "exited" or "aborted"
    exit_code,  \* main's return value
    file,       \* the target file: exists, size
    fdtab,      \* the open file descriptions, by descriptor: open, mode, pos
    workers,    \* workers[0] is the Worker of main.cpp:351, workers[1..numjobs] the vector
    hist,       \* per worker, what has happened (history only, read by no action's guard)
    now,        \* the steady clock, nanoseconds
    iv,         \* the interval computation taken alone: bs, bandwidth, interval (in limbs)
    abuf        \* the buffer of a Worker taken alone: data, blksize, bs, aligned_buf_

vars == <<args, num_blocks, mpc, fd, i, run_start, run_time, output, proc,
          exit_code, file, fdtab, workers, hist, now, iv, abuf>>

mainVars == <<num_blocks, mpc, fd, i, run_start, run_time, output, exit_code>>

W == 0..MaxJobs

(***************************************************************************)
(* Worker (main.cpp:86-196)                                                *)
(***************************************************************************)
\* struct Options (main.cpp:76-84); blksize only sizes the buffer
Options(bandwidth, bs, io_type, nb) ==
    [bandwidth |-> bandwidth, bs |-> bs, io_type |-> io_type, num_blocks |-> nb]

NoOptions == Options(Nullopt, 0, "Write", 0)

\* a Worker that does not exist (yet)
NoWorker ==
    [pc |-> "none", options |-> NoOptions, fd_ |-> 0, start |-> 0,
     interval |-> 0, next_begin |-> 0, num_op |-> 0, io_start |-> 0,
     buf |-> 0, n |-> 0, offset |-> 0, wake |-> 0,
     io_time_ |-> 0, run_time_ |-> 0]

\* Worker::Worker (main.cpp:88-99)
NewWorker(options, fdesc) ==
    [NoWorker EXCEPT !.pc = "ready", !.options = options, !.fd_ = fdesc]

NoHist ==
    [ops |-> 0, xfer |-> 0, idx |-> 0, base |-> 0, waits |-> 0,
     overran |-> FALSE, overrun |-> 0, slept_at |-> 0, slept_for |-> 0,
     eof |-> FALSE, fault |-> FALSE]

Paced(w) == workers[w].options.bandwidth.has_value

\* a difference taken without the check
UncheckedDurationSince(a, b) == Some(a - b)

\* Instant::checked_duration_since (main.cpp:113): a - b, or nothing when b is later than a
CheckedDurationSince(a, b) == IF a >= b THEN Some(a - b) ELSE Nullopt

\* an interval taken for microseconds
IntervalFromMicros(options) ==
    1000 * IntOf(IntervalNanos(options.bs, options.bandwidth.value))

\* main.cpp:103-105
Interval(options) == IntOf(IntervalNanos(options.bs, options.bandwidth.value))

\* a distribution that includes its upper end
BlockDistUpTo(options) == 0..options.num_blocks

\* std::uniform_int_distribution block_dist(0, num_blocks - 1) (main.cpp:97, 141)
BlockDist(options) == 0..(options.num_blocks - 1)

(***************************************************************************)
(* The system calls of rw_one_block.  A call returns -1 (an error), 0 (a   *)
(* read at or past end of file) or the number of bytes moved, which may be *)
(* fewer than asked for.                                                   *)
(***************************************************************************)
\* pread(fd_, buf, n, offset) (main.cpp:144)
PreadReturns(w) ==
    LET avail == file.size - workers[w].offset
    IN  {-1} \cup (IF avail <= 0 THEN {0} ELSE 1..Min(workers[w].n, avail))

\* read(fd_, buf, n) (main.cpp:159), at the position of the open file description
ReadReturns(w) ==
    LET avail == file.size - fdtab[workers[w].fd_].pos
    IN  {-1} \cup (IF avail <= 0 THEN {0} ELSE 1..Min(workers[w].n, avail))

\* write(fd_, buf, n) (main.cpp:173)
WriteReturns(w) == {-1} \cup 1..workers[w].n

Returns(w) ==
    CASE workers[w].options.io_type = "RandRead" -> PreadReturns(w)
      [] workers[w].options.io_type = "Read" -> ReadReturns(w)
      [] workers[w].options.io_type = "Write" -> WriteReturns(w)

\* a pread that moves the file position as read does
PosAfterAnyCall(w, ret) == [fdtab EXCEPT ![workers[w].fd_].pos = @ + ret]

\* what a call that moved ret > 0 bytes does to the open file description
PosAfter(w, ret) ==
    IF workers[w].options.io_type = "RandRead" THEN fdtab
    ELSE [fdtab EXCEPT ![workers[w].fd_].pos = @ + ret]

\* and to the file: a write past the end extends it
FileAfter(w, ret) ==
    IF workers[w].options.io_type = "Write"
    THEN [file EXCEPT !.size = Max(@, fdtab[workers[w].fd_].pos + ret)]
    ELSE file

\* a test that takes a return of 0 for a short transfer
FatalOnErrorOnly(ret) == ret = -1

\* ret == -1 || ret == 0 (main.cpp:145, 160, 174)
Fatal(ret) == ret = -1 \/ ret = 0

\* a retry that starts again at the head of the buffer
AdvanceCountOnly(wk, ret) == [wk EXCEPT !.n = @ - ret]

\* buf += ret; n -= ret; and, for RandRead, offset += ret (main.cpp:150-152, 165-166, 179-180)
Advance(wk, ret) ==
    [wk EXCEPT !.buf = @ + ret,
               !.n = @ - ret,
               !.offset = IF wk.options.io_type = "RandRead" THEN @ + ret ELSE @]

\* while (n) of the do-while loops (main.cpp:153, 167, 181)
MoreToTransfer(wk) == wk.n # 0

(***************************************************************************)
(* Worker::run and Worker::rw_one_block, one action per step between two   *)
(* readings of the clock or two system calls.                              *)
(***************************************************************************)
\* main.cpp:101
RunStart(w) ==
    /\ proc = "running"
    /\ workers[w].pc = "run"
    /\ workers' = [workers EXCEPT ![w].start = now, ![w].pc = "pacer"]
    /\ UNCHANGED <<args, mainVars, proc, file, fdtab, hist, now, iv, abuf>>

\* main.cpp:102-108 with a bandwidth, main.cpp:124 without
PacerInit(w) ==
    /\ proc = "running"
    /\ workers[w].pc = "pacer"
    /\ workers' =
         IF Paced(w)
         THEN [workers EXCEPT
                 ![w].interval = Interval(workers[w].options),
                 ![w].next_begin = now + Interval(workers[w].options),
                 ![w].num_op = workers[w].options.num_blocks,
                 ![w].pc = "loop"]
         ELSE [workers EXCEPT
                 ![w].num_op = workers[w].options.num_blocks,
                 ![w].pc = "loop"]
    /\ hist' = [hist EXCEPT ![w].base = now]
    /\ UNCHANGED <<args, mainVars, proc, file, fdtab, now, iv, abuf>>

\* a loop that stops one operation early
LoopContinuesOffByOne(wk) == wk.num_op > 1

\* while (num_op) (main.cpp:109, 125)
LoopContinues(wk) == wk.num_op # 0

\* while (num_op) { num_op -= 1; rw_one_block() up to its first system call
\* (main.cpp:109-111, 125-127, 137-142, 156-157, 170-171)
\* with the block numbers that block_dist(rng_) may draw
LoopTestDrawing(w, blocks) ==
    /\ proc = "running"
    /\ workers[w].pc = "loop"
    /\ IF ~LoopContinues(workers[w])
       THEN /\ workers' = [workers EXCEPT ![w].pc = "finish"]
            /\ hist' = hist
       ELSE \E idx \in blocks :
            /\ workers' =
                 [workers EXCEPT
                    ![w].num_op = @ - 1,
                    ![w].io_start = now,
                    ![w].buf = 0,
                    ![w].n = workers[w].options.bs,
                    ![w].offset =
                        IF workers[w].options.io_type = "RandRead"
                        THEN idx * workers[w].options.bs ELSE @,
                    ![w].pc = "io"]
            /\ hist' = [hist EXCEPT ![w].xfer = 0,
                                    ![w].idx =
                                        IF workers[w].options.io_type = "RandRead"
                                        THEN idx ELSE 0]
    /\ UNCHANGED <<args, mainVars, proc, file, fdtab, now, iv, abuf>>

LoopTest(w) == LoopTestDrawing(w, BlockDist(workers[w].options))

\* one pass of a do-while loop: the system call, the test of its result, the
\* cursors advanced (main.cpp:143-153, 158-167, 172-181), with the values the
\* system call may return
RwCallReturning(w, rets) ==
    /\ proc = "running"
    /\ workers[w].pc = "io"
    /\ \E ret \in rets :
         IF Fatal(ret)
         THEN /\ workers' = [workers EXCEPT ![w].pc = "panic"]
              /\ hist' = [hist EXCEPT ![w].fault = (ret \in {-1, 0}),
                                      ![w].eof = (ret = 0)]
              /\ UNCHANGED <<file, fdtab>>
         ELSE /\ workers' =
                   [workers EXCEPT
                      ![w] = [Advance(workers[w], ret) EXCEPT
                                !.pc = IF MoreToTransfer(Advance(workers[w], ret))
                                       THEN "io" ELSE "io_end"]]
              /\ hist' = [hist EXCEPT ![w].xfer = @ + ret,
                                      ![w].fault = (ret \in {-1, 0}),
                                      ![w].eof = (ret = 0)]
              /\ fdtab' = PosAfter(w, ret)
              /\ file' = FileAfter(w, ret)
    /\ UNCHANGED <<args, mainVars, proc, now, iv, abuf>>

RwCall(w) == RwCallReturning(w, Returns(w))

\* a duration taken from the start of run()
IoElapsedSinceRun(wk) == now - wk.start

\* start.elapsed(), start being the reading of main.cpp:137
IoElapsed(wk) == now - wk.io_start

\* io_time_ += start.elapsed() (main.cpp:184), and back in run()
RwEnd(w) ==
    /\ proc = "running"
    /\ workers[w].pc = "io_end"
    /\ workers' = [workers EXCEPT
                     ![w].io_time_ = @ + IoElapsed(workers[w]),
                     ![w].pc = IF Paced(w) THEN "wait" ELSE "loop"]
    /\ hist' = [hist EXCEPT ![w].ops = @ + 1]
    /\ UNCHANGED <<args, mainVars, proc, file, fdtab, now, iv, abuf>>

\* a deadline rebased to the current time
AdvanceDeadlineRebased(wk) == [wk EXCEPT !.next_begin = now + wk.interval, !.pc = "loop"]

\* a deadline taken from the first worker's
AdvanceDeadlineOfFirst(wk) ==
    [wk EXCEPT !.next_begin = workers[1].next_begin + wk.interval, !.pc = "loop"]

\* next_begin += interval (main.cpp:121)
AdvanceDeadline(wk) == [wk EXCEPT !.next_begin = @ + wk.interval, !.pc = "loop"]

\* a wait that does not sleep
SleepForNothing(sleep_time) == 0

\* the duration handed to sleep_for (main.cpp:117-119)
SleepFor(sleep_time) == sleep_time.value

\* main.cpp:112-121: the clock is read, and either sleep_for is called or the
\* deadline is advanced at once
Wait(w) ==
    /\ proc = "running"
    /\ workers[w].pc = "wait"
    /\ LET sleep_time == CheckedDurationSince(workers[w].next_begin, now)
       IN  IF sleep_time.has_value
           THEN /\ workers' = [workers EXCEPT
                                 ![w].wake = now + SleepFor(sleep_time),
                                 ![w].pc = "sleep"]
                /\ hist' = [hist EXCEPT ![w].slept_at = now,
                                        ![w].slept_for = SleepFor(sleep_time)]
           ELSE /\ workers' = [workers EXCEPT ![w] = AdvanceDeadline(workers[w])]
                /\ hist' = [hist EXCEPT
                              ![w].waits = @ + 1,
                              ![w].overrun = IF hist[w].overran THEN @
                                             ELSE now - workers[w].next_begin,
                              ![w].overran = TRUE]
    /\ UNCHANGED <<args, mainVars, proc, file, fdtab, now, iv, abuf>>

\* a sleep that may return early
SleepOverEarly(wk) == TRUE

\* std::this_thread::sleep_for blocks for at least the duration asked (main.cpp:117)
SleepOver(wk) == now >= wk.wake

\* sleep_for returns; then main.cpp:121
Wake(w) ==
    /\ proc = "running"
    /\ workers[w].pc = "sleep"
    /\ SleepOver(workers[w])
    /\ workers' = [workers EXCEPT ![w] = AdvanceDeadline(workers[w])]
    /\ hist' = [hist EXCEPT ![w].waits = @ + 1, ![w].slept_at = 0,
                            ![w].slept_for = 0]
    /\ UNCHANGED <<args, mainVars, proc, file, fdtab, now, iv, abuf>>

\* run_time_ += start.elapsed() (main.cpp:130)
RunFinish(w) ==
    /\ proc = "running"
    /\ workers[w].pc = "finish"
    /\ workers' = [workers EXCEPT
                     ![w].run_time_ = @ + (now - workers[w].start),
                     ![w].pc = "done"]
    /\ UNCHANGED <<args, mainVars, proc, file, fdtab, hist, now, iv, abuf>>

\* rusty_panic() (main.cpp:147, 162, 176 and main's): the process ends, with all its threads
Abort ==
    /\ proc = "running"
    /\ mpc = "panic" \/ \E w \in W : workers[w].pc = "panic"
    /\ proc' = "aborted"
    /\ UNCHANGED <<args, mainVars, file, fdtab, workers, hist, now, iv, abuf>>

WorkerStep(w) ==
    \/ RunStart(w)
    \/ PacerInit(w)
    \/ LoopTest(w)
    \/ RwCall(w)
    \/ RwEnd(w)
    \/ Wait(w)
    \/ Wake(w)
    \/ RunFinish(w)

(***************************************************************************)
(* main (main.cpp:198-431), from the parsed arguments on.                  *)
(***************************************************************************)
Return(code) ==
    /\ mpc' = "returned"
    /\ exit_code' = code
    /\ proc' = "exited"

\* open(filename, ...) succeeded: the new descriptor is the next free one
NewFd == Len(fdtab) + 1

Opened(mode) == Append(fdtab, [open |-> TRUE, mode |-> mode, pos |-> 0])

ReadMode == args.io_type \in {"RandRead", "Read"}

\* main.cpp:303-311
MainArgs ==
    /\ proc = "running"
    /\ mpc = "args"
    /\ IF args.size % args.bs # 0
       THEN Return(1) /\ UNCHANGED num_blocks
       ELSE /\ num_blocks' = args.size \div args.bs
            /\ IF num_blocks' = 0
               THEN Return(0)
               ELSE /\ mpc' = IF ReadMode THEN "open_read" ELSE "open_write"
                    /\ UNCHANGED <<exit_code, proc>>
    /\ UNCHANGED <<args, fd, i, run_start, run_time, output, file, fdtab,
                   workers, hist, now, iv, abuf>>

\* a check that asks for more than size bytes
SizeExceeds(st_size, size) == st_size > size

\* file_stat.st_size >= size (main.cpp:332)
SizeSuffices(st_size, size) == st_size >= size

\* main.cpp:317-336: open for reading and look at the size
MainOpenRead ==
    /\ proc = "running"
    /\ mpc = "open_read"
    /\ \/ /\ ~file.exists               \* ENOENT
          /\ fd' = -1
          /\ mpc' = "prov_open"
          /\ UNCHANGED fdtab
       \/ /\ fd' = -1                   \* any other errno
          /\ mpc' = "panic"
          /\ UNCHANGED fdtab
       \/ /\ file.exists
          /\ fd' = NewFd
          /\ fdtab' = Opened("r")
          /\ \/ mpc' = "panic"          \* fstat failed
             \/ mpc' = IF SizeSuffices(file.size, args.size)
                       THEN "check_fd" ELSE "prov_open"
    /\ UNCHANGED <<args, num_blocks, i, run_start, run_time, output, proc,
                   exit_code, file, workers, hist, now, iv, abuf>>

\* main.cpp:338-360: create or truncate the file and start the Worker that fills it
MainProvOpen ==
    /\ proc = "running"
    /\ mpc = "prov_open"
    /\ \/ /\ fd' = -1                   \* open failed
          /\ mpc' = "panic"
          /\ UNCHANGED <<file, fdtab, workers, hist>>
       \/ /\ fd' = NewFd
          /\ fdtab' = Opened("w")
          /\ file' = [exists |-> TRUE, size |-> 0]
          /\ \/ /\ mpc' = "panic"       \* fstat failed
                /\ UNCHANGED <<workers, hist>>
             \/ /\ mpc' = "prov_run"
                /\ workers' =
                     [workers EXCEPT
                        ![0] = [NewWorker(Options(Nullopt, args.bs, "Write", num_blocks),
                                          NewFd)
                                  EXCEPT !.pc = "run"]]
                /\ hist' = [hist EXCEPT ![0] = NoHist]
    /\ UNCHANGED <<args, num_blocks, i, run_start, run_time, output, proc,
                   exit_code, now, iv, abuf>>

\* main.cpp:360-363: run() has returned and the temporary Worker is gone;
\* rusty_assert(close(fd) == 0)
MainProvDone ==
    /\ proc = "running"
    /\ mpc = "prov_run"
    /\ workers[0].pc = "done"
    /\ workers' = [workers EXCEPT ![0] = NoWorker]
    /\ \/ /\ fdtab' = [fdtab EXCEPT ![fd].open = FALSE]
          /\ mpc' = "open_read"
       \/ /\ mpc' = "panic"             \* close failed
          /\ UNCHANGED fdtab
    /\ UNCHANGED <<args, num_blocks, fd, i, run_start, run_time, output, proc,
                   exit_code, file, hist, now, iv, abuf>>

\* a check that lets every numjobs pass
MultithreadWriteAllowed == FALSE

\* if (numjobs > 1) (main.cpp:366)
MultithreadWrite == args.numjobs > 1

\* main.cpp:365-374
MainOpenWrite ==
    /\ proc = "running"
    /\ mpc = "open_write"
    /\ IF MultithreadWrite
       THEN Return(1) /\ UNCHANGED <<fd, fdtab, file>>
       ELSE /\ \/ /\ fd' = -1
                  /\ UNCHANGED <<fdtab, file>>
               \/ /\ fd' = NewFd
                  /\ fdtab' = Opened("w")
                  /\ file' = [exists |-> TRUE, size |-> 0]
            /\ mpc' = "check_fd"
            /\ UNCHANGED <<exit_code, proc>>
    /\ UNCHANGED <<args, num_blocks, i, run_start, run_time, output,
                   workers, hist, now, iv, abuf>>

\* main.cpp:376-379
MainCheckFd ==
    /\ proc = "running"
    /\ mpc = "check_fd"
    /\ mpc' = IF fd = -1 THEN "panic" ELSE "fstat"
    /\ UNCHANGED <<args, num_blocks, fd, i, run_start, run_time, output, proc,
                   exit_code, file, fdtab, workers, hist, now, iv, abuf>>

\* main.cpp:381-400: fstat, the Options, the Workers, run_start
MainConstruct ==
    /\ proc = "running"
    /\ mpc = "fstat"
    /\ \/ /\ mpc' = "panic"             \* fstat failed
          /\ UNCHANGED <<workers, hist, run_start, i>>
       \/ /\ workers' =
               [w \in W |->
                  IF w \in 1..args.numjobs
                  THEN NewWorker(Options(args.bandwidth, args.bs, args.io_type,
                                         num_blocks), fd)
                  ELSE workers[w]]
          /\ hist' = [w \in W |-> IF w \in 1..args.numjobs THEN NoHist ELSE hist[w]]
          /\ run_start' = now
          /\ i' = 0
          /\ mpc' = "spawn"
    /\ UNCHANGED <<args, num_blocks, fd, run_time, output, proc, exit_code,
                   file, fdtab, now, iv, abuf>>

\* main.cpp:401-403: one thread per job, each running workers[i].run()
MainSpawn ==
    /\ proc = "running"
    /\ mpc = "spawn"
    /\ IF i < args.numjobs
       THEN /\ workers' = [workers EXCEPT ![i + 1].pc = "run"]
            /\ i' = i + 1
            /\ mpc' = mpc
       ELSE /\ i' = 0
            /\ mpc' = "join"
            /\ workers' = workers
    /\ UNCHANGED <<args, num_blocks, fd, run_start, run_time, output, proc,
                   exit_code, file, fdtab, hist, now, iv, abuf>>

\* a join that does not wait
JoinableAtOnce(w) == TRUE

\* threads[i].join() returns once workers[i].run() has returned
Joinable(w) == workers[w].pc = "done"

\* main.cpp:404-407
MainJoin ==
    /\ proc = "running"
    /\ mpc = "join"
    /\ IF i < args.numjobs
       THEN /\ Joinable(i + 1)
            /\ i' = i + 1
            /\ UNCHANGED <<mpc, run_time>>
       ELSE /\ run_time' = now - run_start
            /\ mpc' = "report"
            /\ i' = i
    /\ UNCHANGED <<args, num_blocks, fd, run_start, output, proc, exit_code,
                   file, fdtab, workers, hist, now, iv, abuf>>

RECURSIVE SumIoTime(_)
SumIoTime(k) == IF k = 0 THEN 0 ELSE workers[k].io_time_ + SumIoTime(k - 1)

RECURSIVE SumRunTime(_)
SumRunTime(k) == IF k = 0 THEN 0 ELSE workers[k].run_time_ + SumRunTime(k - 1)

\* a line with the bytes over the sum of the workers' run times
GroupReportOverSum ==
    <<[job |-> 0,
       bytes |-> args.size * args.numjobs,
       span |-> SumRunTime(args.numjobs),
       latency |-> SumIoTime(args.numjobs) \div (num_blocks * args.numjobs)]>>

\* main.cpp:408-416: one line, bytes over main's run_time
GroupReport ==
    <<[job |-> 0,
       bytes |-> args.size * args.numjobs,
       span |-> run_time,
       latency |-> SumIoTime(args.numjobs) \div (num_blocks * args.numjobs)]>>

\* main.cpp:418-427: one line per job, bytes over that worker's run_time
RECURSIVE JobReports(_)
JobReports(k) ==
    IF k = 0 THEN <<>>
    ELSE Append(JobReports(k - 1),
                [job |-> k,
                 bytes |-> args.size,
                 span |-> workers[k].run_time_,
                 latency |-> workers[k].io_time_ \div num_blocks])

\* main.cpp:408-430
MainReport ==
    /\ proc = "running"
    /\ mpc = "report"
    /\ output' = IF args.numjobs > 1 /\ args.group_reporting
                 THEN GroupReport ELSE JobReports(args.numjobs)
    /\ Return(0)
    /\ UNCHANGED <<args, num_blocks, fd, i, run_start, run_time, file, fdtab,
                   workers, hist, now, iv, abuf>>

MainStep ==
    \/ MainArgs
    \/ MainOpenRead
    \/ MainProvOpen
    \/ MainProvDone
    \/ MainOpenWrite
    \/ MainCheckFd
    \/ MainConstruct
    \/ MainSpawn
    \/ MainJoin
    \/ MainReport

(***************************************************************************)
(* The clock.                                                              *)
(***************************************************************************)
Elapse(d, limit) ==
    /\ proc = "running"
    /\ now + d <= limit
    /\ now' = now + d
    /\ UNCHANGED <<args, mainVars, proc, file, fdtab, workers, hist, iv, abuf>>

Tick == Elapse(1, MaxTime)

(***************************************************************************)
(* The program: main from the parsed command line, the threads it starts,  *)
(* the clock.                                                              *)
(***************************************************************************)
\* --bandwidth: absent, or a size per second (main.cpp:238-259)
Bandwidths == {Nullopt, Some(NsPerSec)}

NoIv == [pc |-> "off", bs |-> 0, bandwidth |-> 0, interval |-> <<>>]

Init ==
    /\ args \in [bandwidth : Bandwidths, bs : {MaxBs}, io_type : IOType,
                 size : 0..MaxSize, numjobs : 1..MaxJobs,
                 group_reporting : BOOLEAN]
    /\ args.group_reporting => args.numjobs > 1   \* the flag is read only then
    /\ num_blocks = 0
    /\ mpc = "args"
    /\ fd = 0
    /\ i = 0
    /\ run_start = 0
    /\ run_time = 0
    /\ output = <<>>
    /\ proc = "running"
    /\ exit_code = 0
    /\ file \in {[exists |-> FALSE, size |-> 0]}
                \cup [exists : {TRUE}, size : {0, MaxSize, MaxSize + 1}]
    /\ fdtab = <<>>
    /\ workers = [w \in W |-> NoWorker]
    /\ hist = [w \in W |-> NoHist]
    /\ now = 0
    /\ iv = NoIv
    /\ abuf = NoBuf

Next ==
    \/ MainStep
    \/ \E w \in W : WorkerStep(w)
    \/ Abort
    \/ Tick

Spec == Init /\ [][Next]_vars

(***************************************************************************)
(* One Worker::run() taken alone, from the moment its thread starts: the   *)
(* worker is workers[1] of a run with numjobs = 1, main waits in join.     *)
(* The clock runs further than in Spec and the run has up to MaxRunBlocks  *)
(* blocks, so that overruns, waits and catching up all happen.             *)
(***************************************************************************)
RunBandwidths == {Nullopt, Some(NsPerSec), Some(NsPerSec \div 2)}

InitRun ==
    /\ \E bw \in RunBandwidths, b \in {MaxBs}, t \in IOType,
          nb \in 1..MaxRunBlocks :
         /\ args = [bandwidth |-> bw, bs |-> b, io_type |-> t, size |-> nb * b,
                    numjobs |-> 1, group_reporting |-> FALSE]
         /\ num_blocks = nb
         /\ file = [exists |-> TRUE,
                    size |-> IF t = "Write" THEN 0 ELSE nb * b]
         /\ fdtab = <<[open |-> TRUE, mode |-> IF t = "Write" THEN "w" ELSE "r",
                       pos |-> 0]>>
         /\ workers = [w \in W |->
                         IF w = 1
                         THEN [NewWorker(Options(bw, b, t, nb), 1) EXCEPT !.pc = "run"]
                         ELSE NoWorker]
    /\ mpc = "join"
    /\ fd = 1
    /\ i = 0
    /\ run_start = 0
    /\ run_time = 0
    /\ output = <<>>
    /\ proc = "running"
    /\ exit_code = 0
    /\ hist = [w \in W |-> NoHist]
    /\ now = 0
    /\ iv = NoIv
    /\ abuf = NoBuf

TickRun == Elapse(1, MaxRunTime)

NextRun ==
    \/ WorkerStep(1)
    \/ Abort
    \/ TickRun

SpecRun == InitRun /\ [][NextRun]_vars

(***************************************************************************)
(* The interval of main.cpp:103-105 taken alone, over block sizes and      *)
(* bandwidths up to 2^30 and 2^31 - 1, next to the runs of SpecRun, whose  *)
(* workers use it.  The values are kept in limbs: they pass 2^31.           *)
(***************************************************************************)
IvSizes == {1, 2, 3, 4096, 1048576, 4194304, 9007199, 9007200, 16777216, 1073741824}

IvBandwidths == {1, 3, 7, 13, 1000, 4096000, 3000017, NsPerSec, NsPerSec + 1, 2147483647}

InitInterval ==
    \/ InitRun
    \/ /\ iv \in [pc : {"in"}, bs : IvSizes, bandwidth : IvBandwidths,
                  interval : {<<>>}]
       /\ args = [bandwidth |-> Some(iv.bandwidth), bs |-> iv.bs,
                  io_type |-> "RandRead", size |-> iv.bs, numjobs |-> 1,
                  group_reporting |-> FALSE]
       /\ num_blocks = 1
       /\ mpc = "join"
       /\ fd = 1
       /\ i = 0
       /\ run_start = 0
       /\ run_time = 0
       /\ output = <<>>
       /\ proc = "running"
       /\ exit_code = 0
       /\ file = [exists |-> TRUE, size |-> iv.bs]
       /\ fdtab = <<[open |-> TRUE, mode |-> "r", pos |-> 0]>>
       /\ workers = [w \in W |-> NoWorker]
       /\ hist = [w \in W |-> NoHist]
       /\ now = 0
       /\ abuf = NoBuf

\* main.cpp:103-105 for the block size and the bandwidth of iv
IvCompute ==
    /\ iv.pc = "in"
    /\ iv' = [iv EXCEPT !.pc = "out",
                        !.interval = IntervalNanos(iv.bs, iv.bandwidth)]
    /\ UNCHANGED <<args, mainVars, proc, file, fdtab, workers, hist, now, abuf>>

NextInterval ==
    \/ IvCompute
    \/ NextRun

SpecInterval == InitInterval /\ [][NextInterval]_vars

(***************************************************************************)
(* The run of --bs 4096 --size 4096000 --bandwidth 4096000 --readwrite     *)
(* randread with one job, on schedule: every pread moves the whole of what *)
(* is asked or half of it, the blocks drawn are the first and the last,    *)
(* and the clock moves in steps of a quarter of a millisecond, which an    *)
(* operation takes less than: it moves while the worker sleeps, up to the  *)
(* deadline, so that no operation overruns and no sleep lasts longer than  *)
(* asked, and around the first and the last reading of run().              *)
(***************************************************************************)
Scenario2 ==
    [bs |-> 4096, num_blocks |-> 1000, bandwidth |-> 4096000, step |-> 250000]

InitScenario2 ==
    /\ args = [bandwidth |-> Some(Scenario2.bandwidth), bs |-> Scenario2.bs,
               io_type |-> "RandRead",
               size |-> Scenario2.bs * Scenario2.num_blocks,
               numjobs |-> 1, group_reporting |-> FALSE]
    /\ num_blocks = Scenario2.num_blocks
    /\ mpc = "join"
    /\ fd = 1
    /\ i = 0
    /\ run_start = 0
    /\ run_time = 0
    /\ output = <<>>
    /\ proc = "running"
    /\ exit_code = 0
    /\ file = [exists |-> TRUE, size |-> Scenario2.bs * Scenario2.num_blocks]
    /\ fdtab = <<[open |-> TRUE, mode |-> "r", pos |-> 0]>>
    /\ workers = [w \in W |->
                    IF w = 1
                    THEN [NewWorker(Options(Some(Scenario2.bandwidth), Scenario2.bs,
                                            "RandRead", Scenario2.num_blocks), 1)
                            EXCEPT !.pc = "run"]
                    ELSE NoWorker]
    /\ hist = [w \in W |-> NoHist]
    /\ now = 0
    /\ iv = NoIv
    /\ abuf = NoBuf

\* a pread of the scenario: all of the n bytes asked for, or half of them
FullOrHalf(w) == {workers[w].n} \cup ({workers[w].n \div 2} \ {0})

\* the clock of the scenario: one step before the pacer is set up, then up to
\* the deadline that is pending
TickScenario2 ==
    /\ workers[1].pc \in {"run", "pacer", "sleep", "finish"}
    /\ Elapse(Scenario2.step,
              IF workers[1].pc \in {"run", "pacer"} THEN Scenario2.step
              ELSE workers[1].next_begin)

NextScenario2 ==
    \/ RunStart(1)
    \/ PacerInit(1)
    \/ LoopTestDrawing(1, {0, Scenario2.num_blocks - 1})
    \/ RwCallReturning(1, FullOrHalf(1))
    \/ RwEnd(1)
    \/ Wait(1)
    \/ Wake(1)
    \/ RunFinish(1)
    \/ TickScenario2

SpecScenario2 == InitScenario2 /\ [][NextScenario2]_vars

(***************************************************************************)
(* The measured run of a RandRead command with MaxJobs jobs, from the      *)
(* moment main has constructed the workers (main.cpp:400): main starts the *)
(* threads, joins them and reports, the workers run side by side on the    *)
(* one descriptor.  The run has MaxJobsBlocks blocks, so that the workers  *)
(* draw blocks, pace and sleep next to each other.                         *)
(***************************************************************************)
InitJobs ==
    /\ \E bw \in Bandwidths, g \in BOOLEAN :
         /\ args = [bandwidth |-> bw, bs |-> MaxBs, io_type |-> "RandRead",
                    size |-> MaxJobsBlocks * MaxBs, numjobs |-> MaxJobs,
                    group_reporting |-> g]
         /\ workers = [w \in W |->
                         IF w \in 1..MaxJobs
                         THEN NewWorker(Options(bw, MaxBs, "RandRead", MaxJobsBlocks), 1)
                         ELSE NoWorker]
    /\ num_blocks = MaxJobsBlocks
    /\ mpc = "spawn"
    /\ fd = 1
    /\ i = 0
    /\ run_start = 0
    /\ run_time = 0
    /\ output = <<>>
    /\ proc = "running"
    /\ exit_code = 0
    /\ file = [exists |-> TRUE, size |-> MaxJobsBlocks * MaxBs]
    /\ fdtab = <<[open |-> TRUE, mode |-> "r", pos |-> 0]>>
    /\ hist = [w \in W |-> NoHist]
    /\ now = 0
    /\ iv = NoIv
    /\ abuf = NoBuf

NextJobs ==
    \/ MainSpawn
    \/ MainJoin
    \/ MainReport
    \/ \E w \in 1..MaxJobs : WorkerStep(w)
    \/ Abort
    \/ Tick

SpecJobs == InitJobs /\ [][NextJobs]_vars

(***************************************************************************)
(* The buffer of Worker::Worker (main.cpp:92-96) taken alone: buf_ is a    *)
(* vector of bs + blksize - 1 bytes whose data() is any address at which   *)
(* the vector fits into the address space, blksize a power of two.         *)
(***************************************************************************)
BufBases == (1..MaxBase) \cup {PtrMod - d : d \in 1..MaxBase}

BlkSizes == {2^k : k \in 0..MaxAlignLog}

\* buf_(options_.bs + options_.blksize - 1) (main.cpp:92)
BufSize(bs, blksize) == bs + blksize - 1

InitBuffer ==
    /\ abuf \in [pc : {"in"}, data : BufBases, blksize : BlkSizes, bs : 1..MaxBs,
                  aligned_buf_ : {0}]
    /\ abuf.data + BufSize(abuf.bs, abuf.blksize) <= PtrMod
    /\ args = [bandwidth |-> Nullopt, bs |-> abuf.bs, io_type |-> "RandRead",
               size |-> abuf.bs, numjobs |-> 1, group_reporting |-> FALSE]
    /\ num_blocks = 1
    /\ mpc = "fstat"
    /\ fd = 1
    /\ i = 0
    /\ run_start = 0
    /\ run_time = 0
    /\ output = <<>>
    /\ proc = "running"
    /\ exit_code = 0
    /\ file = [exists |-> TRUE, size |-> abuf.bs]
    /\ fdtab = <<[open |-> TRUE, mode |-> "r", pos |-> 0]>>
    /\ workers = [w \in W |-> NoWorker]
    /\ hist = [w \in W |-> NoHist]
    /\ now = 0
    /\ iv = NoIv

\* the initialiser of aligned_buf_ (main.cpp:93-96)
BufCompute ==
    /\ abuf.pc = "in"
    /\ abuf' = [abuf EXCEPT !.pc = "out",
                            !.aligned_buf_ = AlignedBuf(abuf.data, abuf.blksize)]
    /\ UNCHANGED <<args, mainVars, proc, file, fdtab, workers, hist, now, iv>>

NextBuffer == BufCompute

SpecBuffer == InitBuffer /\ [][NextBuffer]_vars

(***************************************************************************)
(* Properties.                                                             *)
(***************************************************************************)
AfterPacer == {"loop", "io", "io_end", "wait", "sleep", "finish", "done", "panic"}

\* block operations begun so far: those finished, and the one under way or failed
Begun(w) ==
    hist[w].ops + (IF workers[w].pc \in {"io", "io_end", "panic"} THEN 1 ELSE 0)

\* C1: run() performs exactly num_blocks block operations and then returns,
\* unless a system call returns 0 or -1: the loop counter and the operations
\* begun always add up to num_blocks, the loop is left only with all of them
\* finished, and the only other way out is the fatal one.
C1_ExactlyBlockCountOperations ==
    \A w \in W :
        workers[w].pc \in AfterPacer =>
            /\ workers[w].num_op + Begun(w) = workers[w].options.num_blocks
            /\ Begun(w) <= workers[w].options.num_blocks
            /\ workers[w].pc \in {"finish", "done"} =>
                   /\ hist[w].ops = workers[w].options.num_blocks
                   /\ ~hist[w].fault
            /\ workers[w].pc = "panic" => hist[w].fault

C1_Witness ==
    /\ workers[1].pc = "done"
    /\ Paced(1)
    /\ hist[1].ops = MaxRunBlocks
    /\ workers[1].run_time_ > 0

\* C2: with a bandwidth the deadlines are base + T, base + 2T, ...: the first is
\* set once from a clock reading base taken at the start of run(), and each
\* wait, slept or skipped, adds exactly T after it, once per operation.
C2_DeadlinesArithmetic ==
    \A w \in W :
        (Paced(w) /\ workers[w].pc \in AfterPacer) =>
            /\ workers[w].start <= hist[w].base
            /\ workers[w].next_begin =
                   hist[w].base + workers[w].interval * (1 + hist[w].waits)
            /\ hist[w].waits =
                   hist[w].ops - (IF workers[w].pc \in {"wait", "sleep"} THEN 1 ELSE 0)

C2_Witness ==
    /\ workers[1].pc = "done"
    /\ Paced(1)
    /\ hist[1].overran
    /\ hist[1].waits = MaxRunBlocks
    /\ hist[1].base > workers[1].start

\* C3 as stated: a paced run that had an overrun takes at least
\* num_blocks * T plus the overrun.
C3_Original ==
    \A w \in W :
        (Paced(w) /\ workers[w].pc = "done" /\ hist[w].overran) =>
            workers[w].run_time_ >=
                workers[w].options.num_blocks * workers[w].interval + hist[w].overrun

\* C3 as amended: an overrun moves no deadline, so the worker sleeps only up to
\* the deadlines fixed at the start, and a paced run takes at least
\* num_blocks * T; the overrun need not be added, the operations after it are
\* issued without a wait until the worker is back on its schedule.
C3_Amended ==
    \A w \in W :
        Paced(w) =>
            /\ workers[w].pc = "done" =>
                   workers[w].run_time_ >=
                       workers[w].options.num_blocks * workers[w].interval
            /\ workers[w].pc = "sleep" =>
                   workers[w].wake =
                       hist[w].base + workers[w].interval * (1 + hist[w].waits)

\* an overrun of 2 ns made up entirely by the operations after it
C3_Witness ==
    /\ workers[1].pc = "done"
    /\ Paced(1)
    /\ hist[1].overran
    /\ hist[1].overrun >= 2
    /\ workers[1].run_time_ = workers[1].options.num_blocks * workers[1].interval

\* C4: after an operation a paced worker calls sleep_for only when the clock
\* reading is not past the deadline, and then for exactly deadline - now, which
\* is never negative (and is zero only at the deadline itself, a sleep of no
\* length); when the deadline is behind the reading no sleep is asked for and
\* the worker goes straight on to its next operation.
C4_SleepsOnlyUntilDeadline ==
    [][\A w \in W :
          /\ workers'[w].pc = "sleep" =>
                /\ hist'[w].slept_at <= workers'[w].next_begin
                /\ hist'[w].slept_for = workers'[w].next_begin - hist'[w].slept_at
                /\ hist'[w].slept_for >= 0
                /\ hist'[w].slept_for > 0 => hist'[w].slept_at < workers'[w].next_begin
                /\ workers'[w].wake = workers'[w].next_begin
          /\ (workers[w].pc = "wait" /\ workers'[w].pc # "wait") =>
                /\ now > workers[w].next_begin => workers'[w].pc = "loop"
                /\ now < workers[w].next_begin => workers'[w].pc = "sleep"
      ]_vars

\* a sleep up to the third deadline, after a wait that was skipped
C4_Witness ==
    /\ workers[1].pc = "sleep"
    /\ hist[1].overran
    /\ hist[1].ops = MaxRunBlocks
    /\ hist[1].slept_for > 0
    /\ hist[1].slept_at + hist[1].slept_for = workers[1].next_begin

\* C5: operation k + 1 of a paced worker never starts before start + k * T, and
\* a run of N operations without an overrun takes at least (N - 1) * T.
C5_NeverAheadOfSchedule ==
    \A w \in W :
        Paced(w) =>
            /\ workers[w].pc \in {"io", "io_end"} =>
                   workers[w].io_start >=
                       workers[w].start + hist[w].ops * workers[w].interval
            /\ (workers[w].pc = "done" /\ ~hist[w].overran) =>
                   workers[w].run_time_ >=
                       (workers[w].options.num_blocks - 1) * workers[w].interval

C5_Witness ==
    /\ workers[1].pc = "io"
    /\ Paced(1)
    /\ hist[1].ops = MaxRunBlocks - 1
    /\ ~hist[1].overran
    /\ workers[1].io_start = workers[1].start + hist[1].ops * workers[1].interval

\* C6 as stated: in the run of scenario 2 the interval is one second (one block
\* per second) and run_time is 1000 seconds, give or take one interval (here in
\* microseconds).
C6_Original ==
    workers[1].pc = "done" =>
        /\ workers[1].interval = NsPerSec
        /\ workers[1].run_time_ \div 1000 >= 999 * 1000000
        /\ workers[1].run_time_ \div 1000 <= 1001 * 1000000

\* C6 as amended: in the run of scenario 2 the interval is 4096 * 10^9 / 4096000
\* ns = 1 ms (one thousand blocks per second), and when no operation overruns
\* run_time is about 1 second: at least the 1000 intervals, and past the
\* deadline that follows the last operation only by what the clock had
\* advanced before the first deadline was set.
C6_Amended ==
    (workers[1].pc \in AfterPacer /\ ~hist[1].overran) =>
        /\ workers[1].interval = 1000000
        /\ workers[1].pc = "done" =>
               /\ workers[1].run_time_ >= NsPerSec
               /\ workers[1].run_time_ - (hist[1].base - workers[1].start)
                      <= NsPerSec + workers[1].interval

\* the run finished on schedule: 1000 operations in exactly one second
C6_Witness ==
    /\ workers[1].pc = "done"
    /\ hist[1].ops = Scenario2.num_blocks
    /\ workers[1].options.bs = Scenario2.bs
    /\ ~hist[1].overran
    /\ workers[1].run_time_ = NsPerSec

\* S * 10^9, the exact product
ExactProduct(bs) == MulN(NatOf(bs), NatOf(NsPerSec))

\* |a - b|
DistN(a, b) == IF GeqN(a, b) THEN SubN(a, b) ELSE SubN(b, a)

\* the interval a paced worker sets at main.cpp:103-105 is the one of its
\* block size and bandwidth, and no later step of the run changes it
IntervalSetOnce ==
    \A w \in W :
        Paced(w) =>
            /\ (workers[w].pc = "pacer" /\ workers'[w].pc # "pacer") =>
                   workers'[w].interval =
                       IntOf(ExactNanos(workers[w].options.bs,
                                        workers[w].options.bandwidth.value))
            /\ workers[w].pc \in AfterPacer =>
                   workers'[w].interval = workers[w].interval

C8_ShortTransferLoop ==
    \A w \in W :
        LET wk == workers[w]
        IN  /\ wk.pc \in {"io", "io_end"} =>
                  /\ hist[w].xfer + wk.n = wk.options.bs
                  /\ wk.buf = hist[w].xfer
                  /\ wk.options.io_type = "RandRead" =>
                         wk.offset = hist[w].idx * wk.options.bs + hist[w].xfer
            /\ wk.pc = "io" => wk.n >= 1 /\ hist[w].xfer < wk.options.bs
            /\ wk.pc = "io_end" => wk.n = 0 /\ hist[w].xfer = wk.options.bs

\* a second pread, after a short one, in the last block of the file
C8_Witness ==
    /\ workers[1].pc = "io"
    /\ workers[1].options.io_type = "RandRead"
    /\ hist[1].xfer = 1
    /\ workers[1].n = workers[1].options.bs - 1
    /\ hist[1].idx = MaxRunBlocks - 1

\* the workers of the measured run
Jobs == 1..args.numjobs

\* C9: a system call that returned 0 or -1 is not retried: its worker stops
\* there for good, with the operations it had completed; from then on nothing
\* is printed; and a report is printed only when every worker of the run has
\* completed all its num_blocks operations without such a return.
C9_FatalIOEndsProcess ==
    /\ [](\A w \in W :
             hist[w].fault =>
                 /\ workers[w].pc = "panic"
                 /\ output = <<>>
                 /\ mpc \notin {"report", "returned"})
    /\ [](output # <<>> =>
             \A w \in Jobs :
                 /\ workers[w].pc = "done"
                 /\ hist[w].ops = num_blocks
                 /\ ~hist[w].fault)
    /\ [][\A w \in W :
             workers[w].pc = "panic" =>
                 /\ workers'[w] = workers[w]
                 /\ hist'[w] = hist[w]
                 /\ output' = output
                 /\ proc' \in {"running", "aborted"}]_vars

\* a read of job 2 failed after job 1 had completed all its operations: the
\* process was aborted and nothing was printed
C9_Witness ==
    /\ proc = "aborted"
    /\ args.numjobs = 2
    /\ hist[2].fault
    /\ workers[2].pc = "panic"
    /\ workers[1].pc = "done"
    /\ hist[1].ops = num_blocks
    /\ output = <<>>

\* C10: in a read mode, with any number of jobs, the file is large enough when
\* the measured run starts for every read of the run to find data: no read or
\* pread of a job returns 0 (the file is changed by nothing but the program).
C10_NoReadReachesEof ==
    (ReadMode /\ mpc \in {"spawn", "join", "report", "returned"}) =>
        \A w \in Jobs : ~hist[w].eof


\* C11: every pread of a RandRead operation, the first and those issued again
\* after a short read, asks for bytes of the block drawn for the operation: the
\* block number is one of 0..num_blocks-1, the offset is the start of the block
\* plus the bytes already read, and offset + n is the end of the block, inside
\* the num_blocks * bs bytes the file was found to have.
C11_PreadInsideDrawnBlock ==
    \A w \in W :
        (workers[w].options.io_type = "RandRead" /\ workers[w].pc \in {"io", "io_end"}) =>
            LET bs == workers[w].options.bs
                block == hist[w].idx
            IN  /\ block \in 0..(workers[w].options.num_blocks - 1)
                /\ workers[w].offset = block * bs + hist[w].xfer
                /\ workers[w].offset + workers[w].n = (block + 1) * bs
                /\ workers[w].pc = "io" => workers[w].n > 0
                /\ (block + 1) * bs <= workers[w].options.num_blocks * bs
                /\ workers[w].options.num_blocks * bs <= file.size

\* the third operation of a run draws the last block, after the second has
\* finished, and a short read has left part of it to be asked for again
C11_Witness ==
    /\ workers[1].options.io_type = "RandRead"
    /\ workers[1].pc = "io"
    /\ hist[1].ops = MaxRunBlocks - 1
    /\ hist[1].idx = MaxRunBlocks - 1
    /\ hist[1].xfer > 0
    /\ workers[1].n > 0

\* C12: in a RandRead run of several workers on the one descriptor no step
\* moves the file position of the descriptor, which is after the run what it
\* was before it; the offset of a pread is the block the worker itself drew
\* plus the bytes the worker itself has read, and no step of another thread
\* changes it.
C12_PositionedReadsLeaveCursor ==
    /\ [](args.io_type = "RandRead" =>
            /\ fdtab[fd].pos = 0
            /\ \A w \in Jobs :
                   workers[w].pc = "io" =>
                       workers[w].offset =
                           hist[w].idx * workers[w].options.bs + hist[w].xfer)
    /\ [][args.io_type = "RandRead" =>
            /\ fdtab' = fdtab
            /\ \A w \in Jobs :
                   workers'[w].offset # workers[w].offset =>
                       /\ workers[w].pc \in {"loop", "io"}
                       /\ \A v \in Jobs \ {w} : workers'[v] = workers[v]
                       /\ mpc' = mpc]_vars

\* all workers have read all their blocks, the last one last, side by side
C12_Witness ==
    /\ args.io_type = "RandRead"
    /\ mpc = "report"
    /\ \A w \in Jobs :
           /\ workers[w].pc = "done"
           /\ hist[w].ops = MaxJobsBlocks
           /\ hist[w].idx = MaxJobsBlocks - 1
           /\ workers[w].run_time_ > 0
    /\ fdtab[fd].pos = 0

\* the steps of a Write command with numjobs > 1: none opens, creates or
\* truncates the file, none constructs or starts a Worker, none prints
NothingHappens ==
    (args.io_type = "Write" /\ args.numjobs > 1) =>
        /\ file' = file
        /\ fdtab' = fdtab
        /\ workers' = workers
        /\ output' = output

\* C13 as stated: a Write command with numjobs > 1 ends with a status that is
\* not 0, and before that nothing has happened to the file and no Worker exists.
C13_Original ==
    /\ []((args.io_type = "Write" /\ args.numjobs > 1) =>
            /\ mpc \in {"args", "open_write", "returned"}
            /\ fdtab = <<>>
            /\ \A w \in W : workers[w] = NoWorker
            /\ mpc = "returned" => exit_code # 0)
    /\ [][NothingHappens]_vars

\* C13 as amended: nothing happens to the file and no Worker exists, and the
\* status is 1, except that a size of 0 ends main with status 0 (main.cpp:309)
\* before numjobs is looked at.
C13_Amended ==
    /\ []((args.io_type = "Write" /\ args.numjobs > 1) =>
            /\ mpc \in {"args", "open_write", "returned"}
            /\ fdtab = <<>>
            /\ \A w \in W : workers[w] = NoWorker
            /\ mpc = "returned" => exit_code = (IF args.size = 0 THEN 0 ELSE 1)
            /\ mpc = "open_write" => args.size > 0)
    /\ [][NothingHappens]_vars

\* the command is rejected at the numjobs test, the file it names is as it was
C13_Witness ==
    /\ args.io_type = "Write"
    /\ args.numjobs > 1
    /\ args.size = MaxSize
    /\ num_blocks > 0
    /\ mpc = "returned"
    /\ exit_code = 1
    /\ file = [exists |-> TRUE, size |-> MaxSize]
    /\ fdtab = <<>>

\* a step that changes the accounting of worker w is a step of w's own run():
\* the end of an operation or the end of run(), not a step of main and not a
\* step that changes another worker
OwnAccounting(w) ==
    (\/ workers'[w].io_time_ # workers[w].io_time_
     \/ workers'[w].run_time_ # workers[w].run_time_) =>
        /\ workers[w].pc \in {"io_end", "finish"}
        /\ mpc' = mpc /\ output' = output
        /\ \A v \in Jobs \ {w} : workers'[v] = workers[v]

\* C14: io_time_ and run_time_ of a worker are changed only by steps of that
\* worker's own thread; main is past the joins, where it reads them and
\* prints, only when run() of every worker has returned, and from then on
\* they do not change.
C14_AccountingReadAfterJoin ==
    /\ []((mpc = "report" \/ output # <<>>) =>
            \A w \in Jobs : workers[w].pc = "done")
    /\ [][/\ \A w \in Jobs : OwnAccounting(w)
          /\ output' # output =>
                 /\ mpc = "report"
                 /\ \A w \in Jobs : workers[w].pc = "done" /\ workers'[w] = workers[w]]_vars

\* main is about to read the accounting of MaxJobs workers, which ran for
\* different times
C14_Witness ==
    /\ mpc = "report"
    /\ args.numjobs = MaxJobs
    /\ \A w \in Jobs : workers[w].pc = "done" /\ workers[w].io_time_ > 0
    /\ workers[1].run_time_ # workers[MaxJobs].run_time_

Grouped == args.numjobs > 1 /\ args.group_reporting /\ output # <<>>

\* the longest of the workers' run times
LongestRunTime ==
    CHOOSE t \in {workers[w].run_time_ : w \in Jobs} :
        \A w \in Jobs : workers[w].run_time_ <= t

\* the group line: the bytes of all workers over one span, the latency the
\* sum of the io times over the operations of all workers
GroupLine ==
    /\ Len(output) = 1
    /\ output[1].bytes = args.bs * num_blocks * args.numjobs
    /\ output[1].span = run_time
    /\ output[1].latency = SumIoTime(args.numjobs) \div (num_blocks * args.numjobs)

\* C15 as stated: the span of the group line is the run time of the worker
\* that ran longest.
C15_Original ==
    Grouped => GroupLine /\ output[1].span = LongestRunTime

\* C15 as amended: the span of the group line is main's own reading, from
\* before the first thread is started to after the last is joined; every
\* worker's run() lies inside it, so it is at least the longest run time,
\* and it may be longer.
C15_Amended ==
    Grouped =>
        /\ GroupLine
        /\ output[1].span >= LongestRunTime
        /\ \A w \in Jobs :
               /\ run_start <= workers[w].start
               /\ workers[w].start + workers[w].run_time_ <= run_start + run_time

\* a group line whose span is shorter than the sum of the workers' run times
C15_Witness ==
    /\ Grouped
    /\ output[1].span < SumRunTime(args.numjobs)
    /\ output[1].span = MaxTime
    /\ output[1].latency > 0

\* C16: for a block size blksize that is a power of two, any bs > 0 and any
\* address of the vector, aligned_buf_ is the smallest multiple of blksize
\* that is not below data(), at most blksize - 1 bytes into the vector, and
\* the bs bytes from it lie inside the bs + blksize - 1 bytes of the vector.
C16_AlignedSliceInsideBuffer ==
    abuf.pc = "out" =>
        /\ abuf.aligned_buf_ % abuf.blksize = 0
        /\ abuf.aligned_buf_ >= abuf.data
        /\ abuf.aligned_buf_ - abuf.data <= abuf.blksize - 1
        /\ \A a \in abuf.data..(abuf.aligned_buf_ - 1) : a % abuf.blksize # 0
        /\ abuf.aligned_buf_ + abuf.bs <= abuf.data + BufSize(abuf.bs, abuf.blksize)

\* the vector starts off the alignment, next to the end of the address space,
\* and the slice ends with the last byte of the vector
C16_Witness ==
    /\ abuf.pc = "out"
    /\ abuf.blksize > 2
    /\ abuf.data % abuf.blksize = 1
    /\ abuf.data > MaxBase
    /\ abuf.aligned_buf_ + abuf.bs = abuf.data + BufSize(abuf.bs, abuf.blksize)


\* the steps of a worker in the loop of run(), the sleep apart
LoopStep(w) == LoopTest(w) \/ RwCall(w) \/ RwEnd(w) \/ Wait(w) \/ RunFinish(w)

\* C18: each worker paces itself.  Its deadline is its own reading of the
\* clock plus T for each of its own waits, and it sleeps up to that deadline;
\* it starts operation k+1 no earlier than k*T after its own start; a step
\* that changes one worker changes no other; and while one worker sleeps
\* every other worker that is in its loop and not asleep can take its next
\* step.
C18_EachWorkerItsOwnPacer ==
    /\ [](\A w \in Jobs :
            (Paced(w) /\ workers[w].pc \in AfterPacer) =>
                /\ workers[w].next_begin =
                       hist[w].base + workers[w].interval * (1 + hist[w].waits)
                /\ workers[w].pc = "sleep" => workers[w].wake = workers[w].next_begin
                /\ workers[w].pc \in {"io", "io_end"} =>
                       workers[w].io_start >=
                           workers[w].start + hist[w].ops * workers[w].interval
                /\ (workers[w].pc = "sleep" /\ proc = "running") =>
                       \A v \in Jobs \ {w} :
                           workers[v].pc \in {"loop", "io", "io_end", "wait", "finish"} =>
                               ENABLED LoopStep(v))
    /\ [][\A w \in Jobs : \A v \in Jobs \ {w} :
            workers'[w] # workers[w] => workers'[v] = workers[v]]_vars

\* while the first worker sleeps for its deadline another worker starts an
\* operation, less than T after the first worker started its own
C18_Witness ==
    /\ args.numjobs > 1
    /\ Paced(1)
    /\ workers[1].pc = "sleep"
    /\ workers[1].wake > now
    /\ workers[MaxJobs].pc = "io"
    /\ workers[MaxJobs].io_start > hist[1].slept_at
    /\ workers[MaxJobs].io_start - workers[1].io_start < workers[1].interval

\* C19: io_time_ of a worker never exceeds the time since its run() began,
\* nor, once run() has returned, run_time_: the operations lie one after
\* another inside run(), the one under way included; a wait or a sleep adds
\* nothing to io_time_; and neither value ever decreases.
C19_IoTimeWithinRunTime ==
    /\ [](\A w \in W :
            /\ workers[w].pc \in AfterPacer =>
                   /\ workers[w].io_time_ <= now - workers[w].start
                   /\ workers[w].start <= now
            /\ workers[w].pc \in {"io", "io_end"} =>
                   /\ workers[w].start <= workers[w].io_start
                   /\ workers[w].io_time_ <= workers[w].io_start - workers[w].start
            /\ workers[w].pc = "done" => workers[w].io_time_ <= workers[w].run_time_)
    /\ [][\A w \in W :
            workers'[w].pc # "none" =>
                /\ workers'[w].io_time_ >= workers[w].io_time_
                /\ workers'[w].run_time_ >= workers[w].run_time_
                /\ workers[w].pc \in {"wait", "sleep"} =>
                       workers'[w].io_time_ = workers[w].io_time_]_vars

\* a paced run of MaxRunBlocks operations that took time, and waits that took
\* more
C19_Witness ==
    /\ workers[1].pc = "done"
    /\ Paced(1)
    /\ hist[1].ops = MaxRunBlocks
    /\ workers[1].io_time_ > 1
    /\ workers[1].io_time_ < workers[1].run_time_

\* the provisioning passes so far of a read command: the descriptors opened
\* for writing
Passes == Cardinality({k \in 1..Len(fdtab) : fdtab[k].mode = "w"})

\* main is past the loop of main.cpp:317-363
PastLoop ==
    /\ ReadMode
    /\ mpc \in {"check_fd", "fstat", "spawn", "join", "report", "returned"}
    /\ fd # 0

\* what the loop does, whatever the file was: the run goes on from an open
\* for reading that found enough bytes; a pass truncates the file, fills it
\* with a Write worker without a bandwidth and closes the descriptor before
\* the file is opened for reading again; there is no second pass
ProvisioningLoop ==
    /\ [](PastLoop =>
            /\ fdtab[fd].open /\ fdtab[fd].mode = "r"
            /\ file.exists /\ SizeSuffices(file.size, args.size))
    /\ []((ReadMode /\ workers[0].pc # "none") =>
            /\ mpc = "prov_run"
            /\ workers[0].options = Options(Nullopt, args.bs, "Write", num_blocks)
            /\ workers[0].fd_ = fd /\ fdtab[fd].open /\ fdtab[fd].mode = "w"
            /\ file.size = fdtab[fd].pos)
    /\ [](ReadMode => Passes <= 1)
    /\ [][/\ (mpc = "prov_open" /\ mpc' = "prov_run") =>
                 file' = [exists |-> TRUE, size |-> 0]
          /\ (mpc = "prov_run" /\ mpc' = "open_read") =>
                 /\ hist[0].ops = num_blocks
                 /\ file.size = args.bs * num_blocks
                 /\ ~fdtab'[fd].open]_vars

\* C17 as stated: the loop always ends with a file of exactly bs * num_blocks
\* bytes.
C17_Original ==
    /\ ProvisioningLoop
    /\ [](PastLoop => file.size = args.bs * num_blocks)

\* C17 as amended: the loop ends with a file of exactly bs * num_blocks bytes
\* when it has made a pass; a file that was large enough is left as it is,
\* with bs * num_blocks bytes or more.
C17_Amended ==
    /\ ProvisioningLoop
    /\ [](PastLoop =>
            /\ Passes = 1 => file.size = args.bs * num_blocks
            /\ Passes = 0 => file.size >= args.bs * num_blocks)

\* a run with a bandwidth starts on a file that existed, was too small, and
\* was filled by one pass
C17_Witness ==
    /\ PastLoop
    /\ mpc = "spawn"
    /\ args.bandwidth.has_value
    /\ Passes = 1
    /\ Len(fdtab) = 3
    /\ fdtab[1].mode = "r"
    /\ file.size = args.size


\* the descriptors that are open
OpenFds == {k \in 1..Len(fdtab) : fdtab[k].open}

\* C20: when main constructs and starts the workers of the measured run, the
\* descriptor handed to them is the only one that is open: what the
\* provisioning opened has been closed.
C20_OneDescriptorAtRunStart ==
    mpc \in {"fstat", "spawn", "join", "report"} => OpenFds = {fd}

=============================================================================
